---- MODULE Spec2Model ----
(***************************************************************************)
(* Dexios: header codec, AEAD pipelines (memory and stream mode) and the   *)
(* header operations, modelled from the Rust sources.                      *)
(*                                                                         *)
(* Bytes are naturals 0..255.  The output of an AEAD call is kept symbolic *)
(* (an ideal cipher): every ciphertext byte is a token >= 256 naming the   *)
(* AEAD call that produced it and the byte's index, and the call itself is *)
(* recorded in the table ctab.  A flipped ciphertext byte is a negative    *)
(* number, which names no call.                                            *)
(***************************************************************************)
EXTENDS Integers, Sequences, FiniteSets, TLC

VARIABLES
    \* ---- header codec (SpecHeader) ----
    h_in,       \* the Header value under test
    h_bytes,    \* the byte vector under test (serialized, loaded or rewritten)
    h_orig,     \* the byte vector as it was first produced
    h_ser,      \* result of Header::serialize(h_in)
    h_aad,      \* result of Header::create_aad(h_in)
    h_de,       \* result of Header::deserialize(h_bytes)
    h_de0,      \* result of Header::deserialize(h_orig)
    h_wr,       \* result of Header::write(h_in) and what the writer holds
    \* ---- pipelines and header operations (Spec, SpecTamper) ----
    plain,      \* the plaintext input file
    file,       \* the encrypted file on disk
    orig,       \* the encrypted file as the encryption run wrote it
    ctab,       \* every AEAD encryption made so far (the ideal cipher)
    enc,        \* the encryption run: result, inputs, cipher calls and writes
    dec,        \* the last decryption run of the file as it is now
    upd,        \* the last update_key run
    tam,        \* the bit flipped on disk, if any
    cut,        \* the length the file on disk was cut to, -1 if it was not
    moved,      \* the rearrangement of the file's ciphertext blocks, if any
    hops,       \* the header dump, strip and restore runs and the dump file
    erase,      \* whether encrypt and decrypt are run with --erase
    wiped,      \* the files secure_erase was called on ("plain", "file");
                \* plain and file keep the contents they had
    \* ---- secrets, key sources and directory packing (SpecUtil) ----
    prot,       \* a Protected value: its buffer and what was observed of it
    ukey,       \* the last get_user_key call: its inputs and the source used
    pack        \* the last encrypt_directory / decrypt_directory call

hvars == <<h_in, h_bytes, h_orig, h_ser, h_aad, h_de, h_de0, h_wr>>

pvars == <<plain, file, orig, ctab, enc, dec, upd, tam, cut, moved, hops, erase,
          wiped>>

uvars == <<prot, ukey, pack>>

vars == <<h_in, h_bytes, h_orig, h_ser, h_aad, h_de, h_de0, h_wr,
          plain, file, orig, ctab, enc, dec, upd, tam, cut, moved, hops, erase,
          wiped,
          prot, ukey, pack>>

-----------------------------------------------------------------------------
(* primitives.rs *)

SALT_LEN == 16

\* length of the AEAD tag appended to every ciphertext
TAG_LEN == 16

Algorithms == {"XChaCha20Poly1305", "Aes256Gcm", "DeoxysII256"}
Modes == {"MemoryMode", "StreamMode"}
HeaderVersions == {"V1", "V2", "V3", "V4"}

Zeros(n) == [i \in 1..n |-> 0]

Fill(n, v) == [i \in 1..n |-> v]

\* s[a..b) with zero-based offsets, as a Rust slice
Slice(s, a, b) == SubSeq(s, a + 1, b)

\* gen_salt(): the entropy the generator draws is the input seed
gen_salt(seed) == [i \in 1..SALT_LEN |-> 16 * seed + i]

\* the bytes a random generator seeded with v yields for a nonce of n bytes
NonceOf(v, n) == [i \in 1..n |-> 100 + 30 * v + i]

\* gen_nonce: the entropy the generator draws is the input seed
gen_nonce(algorithm, mode, seed) ==
    LET nonce_len == CASE algorithm = "Aes256Gcm" -> 12
                       [] algorithm = "XChaCha20Poly1305" -> 24
                       [] algorithm = "DeoxysII256" -> 15
    IN  NonceOf(seed, IF mode = "StreamMode" THEN nonce_len - 4 ELSE nonce_len)

-----------------------------------------------------------------------------
(* header.rs *)

None == <<>>

calc_nonce_lenNoStream(algorithm, mode) ==
    CASE algorithm = "XChaCha20Poly1305" -> 24
      [] algorithm = "Aes256Gcm" -> 12
      [] algorithm = "DeoxysII256" -> 15

calc_nonce_len(algorithm, mode) ==
    LET nonce_len == CASE algorithm = "XChaCha20Poly1305" -> 24
                       [] algorithm = "Aes256Gcm" -> 12
                       [] algorithm = "DeoxysII256" -> 15
    IN  IF mode = "StreamMode" THEN nonce_len - 4 ELSE nonce_len

HeaderType(version, algorithm, mode) ==
    [version |-> version, algorithm |-> algorithm, mode |-> mode]

Header(header_type, nonce, salt, master_key_encrypted, master_key_nonce) ==
    [header_type |-> header_type, nonce |-> nonce, salt |-> salt,
     master_key_encrypted |-> master_key_encrypted,
     master_key_nonce |-> master_key_nonce]

NoHeader == Header(HeaderType("None", "None", "None"), <<>>, <<>>, None, None)

serialize_version(self) ==
    CASE self.header_type.version = "V1" -> <<222, 1>>
      [] self.header_type.version = "V2" -> <<222, 2>>
      [] self.header_type.version = "V3" -> <<222, 3>>
      [] self.header_type.version = "V4" -> <<222, 4>>

serialize_algorithm(self) ==
    CASE self.header_type.algorithm = "XChaCha20Poly1305" -> <<14, 1>>
      [] self.header_type.algorithm = "Aes256Gcm" -> <<14, 2>>
      [] self.header_type.algorithm = "DeoxysII256" -> <<14, 3>>

serialize_mode(self) ==
    CASE self.header_type.mode = "StreamMode" -> <<12, 1>>
      [] self.header_type.mode = "MemoryMode" -> <<12, 2>>

get_tag(self) ==
    [version |-> serialize_version(self),
     algorithm |-> serialize_algorithm(self),
     mode |-> serialize_mode(self)]

serialize_v3NoReserved(self, tag) ==
    tag.version \o tag.algorithm \o tag.mode \o self.salt \o self.nonce
        \o Zeros(16)
        \o Zeros(26 - calc_nonce_len(self.header_type.algorithm, self.header_type.mode))

serialize_v3(self, tag) ==
    LET padding == Zeros(26 - calc_nonce_len(self.header_type.algorithm,
                                             self.header_type.mode))
    IN  tag.version \o tag.algorithm \o tag.mode \o self.salt \o Zeros(16)
            \o self.nonce \o padding

\* Option::unwrap of the master key fields panics on None; the caller
\* (serialize) tests for that before using the bytes.
serialize_v4(self, tag) ==
    LET padding == Zeros(26 - calc_nonce_len(self.header_type.algorithm,
                                             self.header_type.mode))
        padding2 == Zeros(32 - calc_nonce_len(self.header_type.algorithm,
                                              "MemoryMode"))
    IN  tag.version \o tag.algorithm \o tag.mode \o self.salt \o self.nonce
            \o padding \o self.master_key_encrypted \o self.master_key_nonce
            \o padding2

\* Result<Vec<u8>>
OkBytes(b) == [ok |-> TRUE, err |-> "", val |-> b]
ErrBytes(e) == [ok |-> FALSE, err |-> e, val |-> <<>>]
NoResult == [ok |-> FALSE, err |-> "none", val |-> <<>>]

serializeAnyVersion(self) ==
    IF self.header_type.version = "V4"
    THEN OkBytes(serialize_v4(self, get_tag(self)))
    ELSE OkBytes(serialize_v3(self, get_tag(self)))

serialize(self) ==
    LET tag == get_tag(self)
    IN  CASE self.header_type.version = "V1" -> ErrBytes("UnsupportedSerialization")
          [] self.header_type.version = "V2" -> ErrBytes("UnsupportedSerialization")
          [] self.header_type.version = "V3" -> OkBytes(serialize_v3(self, tag))
          [] self.header_type.version = "V4" ->
                IF self.master_key_encrypted = None \/ self.master_key_nonce = None
                THEN ErrBytes("panic")
                ELSE OkBytes(serialize_v4(self, tag))

get_size(self) ==
    IF self.header_type.version = "V4" THEN 128 ELSE 64

WriteResult(res, out) == [res |-> res, out |-> out]

\* header.write(&mut writer): one call of writer.write, which takes the first
\* accepted bytes of the buffer; the count it returns is not looked at
write(self, writer, accepted) ==
    LET header_bytes == serialize(self)
    IN  IF ~header_bytes.ok THEN WriteResult(header_bytes.err, writer)
        ELSE WriteResult("Ok", writer \o SubSeq(header_bytes.val, 1,
                                   IF accepted < Len(header_bytes.val)
                                   THEN accepted ELSE Len(header_bytes.val)))

create_aad(self) ==
    LET tag == get_tag(self)
    IN  CASE self.header_type.version = "V1" -> ErrBytes("UnsupportedSerialization")
          [] self.header_type.version = "V2" -> ErrBytes("UnsupportedSerialization")
          [] self.header_type.version = "V3" -> OkBytes(serialize_v3(self, tag))
          [] self.header_type.version = "V4" ->
                LET padding == Zeros(26 - calc_nonce_len(self.header_type.algorithm,
                                                         self.header_type.mode))
                    master_key_nonce_len ==
                        calc_nonce_len(self.header_type.algorithm, "MemoryMode")
                    padding2 == Zeros(32 - master_key_nonce_len)
                IN  OkBytes(tag.version \o tag.algorithm \o tag.mode \o self.salt
                                \o self.nonce \o padding \o padding2)

\* Result<(Header, Vec<u8>)>; size is the number of bytes the reader has
\* advanced by when deserialize returns Ok.
OkHeader(hd, aad, size) ==
    [ok |-> TRUE, err |-> "", header |-> hd, aad |-> aad, size |-> size]
ErrHeader(e) ==
    [ok |-> FALSE, err |-> e, header |-> NoHeader, aad |-> <<>>, size |-> 0]
NoParse == ErrHeader("none")

\* the AAD carve-out of a V4 header, header.rs 306-323
aad_v4WholeHeader(full_header_bytes, algorithm) == full_header_bytes

aad_v4KeepsNonce(full_header_bytes, algorithm) ==
    Slice(full_header_bytes, 0, 48)
        \o Slice(full_header_bytes, 96, Len(full_header_bytes))

aad_v4(full_header_bytes, algorithm) ==
    LET master_key_nonce_len == calc_nonce_len(algorithm, "MemoryMode")
    IN  Slice(full_header_bytes, 0, 48)
            \o Slice(full_header_bytes, 96 + master_key_nonce_len,
                     Len(full_header_bytes))

\* the fields of a header of each version, read from the 64 or 128 bytes
parse_fieldsV2Order(version, algorithm, mode, full_header_bytes) ==
    LET nonce_len == calc_nonce_len(algorithm, mode)
    IN  Header(HeaderType(version, algorithm, mode),
               Slice(full_header_bytes, 22, 22 + nonce_len),
               Slice(full_header_bytes, 6, 22), None, None)

parse_fieldsV3Order(version, algorithm, mode, full_header_bytes) ==
    LET nonce_len == calc_nonce_len(algorithm, mode)
    IN  Header(HeaderType(version, algorithm, mode),
               Slice(full_header_bytes, 38, 38 + nonce_len),
               Slice(full_header_bytes, 6, 22), None, None)

parse_fields(version, algorithm, mode, full_header_bytes) ==
    LET nonce_len == calc_nonce_len(algorithm, mode)
        header_type == HeaderType(version, algorithm, mode)
        salt == Slice(full_header_bytes, 6, 22)
    IN  CASE version \in {"V1", "V3"} ->
                Header(header_type, Slice(full_header_bytes, 38, 38 + nonce_len),
                       salt, None, None)
          [] version = "V2" ->
                Header(header_type, Slice(full_header_bytes, 22, 22 + nonce_len),
                       salt, None, None)
          [] version = "V4" ->
                LET master_key_nonce_len == calc_nonce_len(algorithm, "MemoryMode")
                IN  Header(header_type,
                           Slice(full_header_bytes, 22, 22 + nonce_len), salt,
                           Slice(full_header_bytes, 48, 96),
                           Slice(full_header_bytes, 96, 96 + master_key_nonce_len))

read_exactZeroFill(reader, n) ==
    [ok |-> TRUE, buf |-> SubSeq(reader \o Zeros(n), 1, n)]

\* reader.read_exact(&mut buf) with a buffer of n bytes
read_exact(reader, n) ==
    IF Len(reader) < n THEN [ok |-> FALSE, buf |-> <<>>]
    ELSE [ok |-> TRUE, buf |-> SubSeq(reader, 1, n)]

\* reader: the bytes from the reader's position to its end
deserialize(reader) ==
    IF ~read_exact(reader, 2).ok THEN ErrHeader("MalformedHeader")
    ELSE
    LET version_bytes == read_exact(reader, 2).buf
        version == CASE version_bytes = <<222, 1>> -> "V1"
                     [] version_bytes = <<222, 2>> -> "V2"
                     [] version_bytes = <<222, 3>> -> "V3"
                     [] version_bytes = <<222, 4>> -> "V4"
                     [] OTHER -> "None"
        header_length == IF version = "V4" THEN 128 ELSE 64
    IN
    IF version = "None" THEN ErrHeader("MalformedHeader")
    ELSE IF ~read_exact(reader, header_length).ok THEN ErrHeader("MalformedHeader")
    ELSE
    LET full_header_bytes == read_exact(reader, header_length).buf
        algorithm_bytes == Slice(full_header_bytes, 2, 4)
        algorithm == CASE algorithm_bytes = <<14, 1>> -> "XChaCha20Poly1305"
                       [] algorithm_bytes = <<14, 2>> -> "Aes256Gcm"
                       [] algorithm_bytes = <<14, 3>> -> "DeoxysII256"
                       [] OTHER -> "None"
        mode_bytes == Slice(full_header_bytes, 4, 6)
        mode == CASE mode_bytes = <<12, 1>> -> "StreamMode"
                  [] mode_bytes = <<12, 2>> -> "MemoryMode"
                  [] OTHER -> "None"
    IN
    IF algorithm = "None" THEN ErrHeader("MalformedHeader")
    ELSE IF mode = "None" THEN ErrHeader("MalformedHeader")
    ELSE
    LET aad == CASE version \in {"V1", "V2"} -> <<>>
                 [] version = "V3" -> full_header_bytes
                 [] version = "V4" -> aad_v4(full_header_bytes, algorithm)
    IN  OkHeader(parse_fields(version, algorithm, mode, full_header_bytes),
                 aad, header_length)

-----------------------------------------------------------------------------
(* Header codec under test: a Header value is built, serialized (or, for   *)
(* the read-only versions, loaded in its on-disk layout), a byte of the    *)
(* record may be rewritten, and the record is parsed back.                 *)

\* number of distinct values drawn for each random field
NumSeeds == 2

NoMove == [kind |-> "none"]

NoProt == [state |-> "none", data |-> <<>>, given |-> <<>>, seen |-> <<>>,
           dbg |-> "", buffers |-> 0]

NoKey == [source |-> "none"]

NoPack == [res |-> "none"]

UtilIdle ==
    /\ prot = NoProt
    /\ ukey = NoKey
    /\ pack = NoPack

PipelineIdle ==
    /\ plain = <<>>
    /\ file = <<>>
    /\ orig = <<>>
    /\ ctab = <<>>
    /\ enc = [res |-> "none"]
    /\ dec = [res |-> "none"]
    /\ upd = [res |-> "none"]
    /\ tam = 0
    /\ cut = -1
    /\ moved = NoMove
    /\ hops = [res |-> "none"]
    /\ erase = FALSE
    /\ wiped = {}

Seeds == 1..NumSeeds

\* the header lab keeps the wrapped key as plain bytes
WrappedKeyOf(w) == [i \in 1..48 |-> 200 + ((i + w) % 50)]

HeaderInputs ==
    { Header(HeaderType(v, a, m),
             gen_nonce(a, m, n),
             gen_salt(s),
             IF v = "V4" THEN WrappedKeyOf(w) ELSE None,
             IF v = "V4" THEN gen_nonce(a, "MemoryMode", w) ELSE None)
        : v \in HeaderVersions, a \in Algorithms, m \in Modes,
          n \in Seeds, s \in Seeds, w \in Seeds }

\* the 64 bytes of a V1 or V2 header as deserialize reads them; the bytes it
\* skips hold pad
legacy_layout(self, pad) ==
    LET nonce_len == calc_nonce_len(self.header_type.algorithm, self.header_type.mode)
        tag == get_tag(self)
    IN  IF self.header_type.version = "V1"
        THEN tag.version \o tag.algorithm \o tag.mode \o self.salt \o Fill(16, pad)
                \o self.nonce \o Fill(26 - nonce_len, pad)
        ELSE tag.version \o tag.algorithm \o tag.mode \o self.salt \o self.nonce
                \o Fill(26 - nonce_len, pad) \o Fill(16, pad)

PadVals == {0, 7}

PokeVals == {0, 3, 255}

\* the example record of the module documentation
DocExample ==
    <<222, 2, 14, 1, 12, 1, 142, 88, 243, 144, 119, 187, 189, 190, 121, 90, 211,
      56, 185, 14, 76, 45, 16, 5, 237, 72, 7, 203, 13, 145, 13, 155, 210, 29, 128,
      142, 241, 233, 42, 168, 243, 129, 0, 0, 0, 0, 0, 0, 214, 45, 3, 4, 11, 212,
      129, 123, 192, 157, 185, 109, 151, 225, 233, 161>>

\* bytes already in the writer, and the byte counts one writer.write accepts
WriterContents == {<<>>, <<9, 9>>}

AcceptCounts == {128, 40}

NoWrite == [res |-> "none", out |-> <<>>, before |-> <<>>]

\* lengths a record on disk is cut to
CutLens == {1, 2, 5, 63, 64, 127}

InitH ==
    /\ h_in \in HeaderInputs
    /\ h_bytes = <<>>
    /\ h_orig = <<>>
    /\ h_ser = NoResult
    /\ h_aad = NoResult
    /\ h_de = NoParse
    /\ h_de0 = NoParse
    /\ h_wr = NoWrite
    /\ PipelineIdle
    /\ UtilIdle

\* header.serialize()
Serialize ==
    /\ h_wr = NoWrite
    /\ h_ser = NoResult
    /\ h_bytes = <<>>
    /\ h_ser' = serialize(h_in)
    /\ h_bytes' = h_ser'.val
    /\ h_orig' = h_ser'.val
    /\ UNCHANGED <<h_wr, h_in, h_aad, h_de, h_de0>>
    /\ UNCHANGED pvars
    /\ UNCHANGED uvars

\* a V1 or V2 header written by an earlier release is on disk
LoadLegacy ==
    /\ h_wr = NoWrite
    /\ h_bytes = <<>>
    /\ h_in.header_type.version \in {"V1", "V2"}
    /\ \E pad \in PadVals :
          /\ h_bytes' = legacy_layout(h_in, pad)
          /\ h_orig' = legacy_layout(h_in, pad)
    /\ UNCHANGED <<h_wr, h_in, h_ser, h_aad, h_de, h_de0>>
    /\ UNCHANGED pvars
    /\ UNCHANGED uvars

\* the example record of the module documentation is on disk
LoadExample ==
    /\ h_wr = NoWrite
    /\ h_bytes = <<>>
    /\ h_in.header_type = HeaderType("V2", "XChaCha20Poly1305", "StreamMode")
    /\ h_bytes' = DocExample
    /\ h_orig' = DocExample
    /\ UNCHANGED <<h_wr, h_in, h_ser, h_aad, h_de, h_de0>>
    /\ UNCHANGED pvars
    /\ UNCHANGED uvars

\* header.write(&mut writer), on a header nothing else was done with
Write ==
    /\ h_wr = NoWrite
    /\ h_bytes = <<>>
    /\ h_ser = NoResult
    /\ h_aad = NoResult
    /\ \E writer \in WriterContents, accepted \in AcceptCounts :
          LET r == write(h_in, writer, accepted)
          IN  h_wr' = [res |-> r.res, out |-> r.out, before |-> writer]
    /\ UNCHANGED <<h_in, h_bytes, h_orig, h_ser, h_aad, h_de, h_de0>>
    /\ UNCHANGED pvars
    /\ UNCHANGED uvars

\* the record on disk is cut short
Cut ==
    /\ h_bytes # <<>>
    /\ h_bytes = h_orig
    /\ \E n \in CutLens :
          /\ n < Len(h_bytes)
          /\ h_bytes' = SubSeq(h_bytes, 1, n)
    /\ h_de' = NoParse
    /\ h_de0' = NoParse
    /\ UNCHANGED <<h_wr, h_in, h_orig, h_ser, h_aad>>
    /\ UNCHANGED pvars
    /\ UNCHANGED uvars

\* header.create_aad()
CreateAad ==
    /\ h_wr = NoWrite
    /\ h_aad = NoResult
    /\ h_aad' = create_aad(h_in)
    /\ UNCHANGED <<h_wr, h_in, h_bytes, h_orig, h_ser, h_de, h_de0>>
    /\ UNCHANGED pvars
    /\ UNCHANGED uvars

\* one byte of the record on disk is rewritten
Poke ==
    /\ h_bytes # <<>>
    /\ h_bytes = h_orig
    /\ \E pos \in 1..Len(h_bytes), val \in PokeVals :
          /\ h_bytes[pos] # val
          /\ h_bytes' = [h_bytes EXCEPT ![pos] = val]
    /\ h_de' = NoParse
    /\ h_de0' = NoParse
    /\ UNCHANGED <<h_wr, h_in, h_orig, h_ser, h_aad>>
    /\ UNCHANGED pvars
    /\ UNCHANGED uvars

\* Header::deserialize(&mut cursor) on the record and on its first form
Deserialize ==
    /\ h_bytes # <<>>
    /\ h_de = NoParse
    /\ h_de' = deserialize(h_bytes)
    /\ h_de0' = deserialize(h_orig)
    /\ UNCHANGED <<h_wr, h_in, h_bytes, h_orig, h_ser, h_aad>>
    /\ UNCHANGED pvars
    /\ UNCHANGED uvars

NextH ==
    \/ Serialize \/ LoadLegacy \/ LoadExample \/ Write \/ CreateAad
    \/ Poke \/ Cut \/ Deserialize

SpecHeader == InitH /\ [][NextH]_vars

\* the record has been parsed since it was last written
Parsed == h_de # NoParse

Untouched == h_bytes = h_orig

-----------------------------------------------------------------------------
(* The AEAD primitives (aead crate: Aead, EncryptorLE31, DecryptorLE31) as  *)
(* an ideal cipher.  ctab lists the encryptions made; ciphertext byte i of  *)
(* call id is the token 256 + 64 * id + i.                                  *)

\* stream block size; the program's value is 1_048_576, scaled down here
BLOCK_SIZE == 2

Min(a, b) == IF a < b THEN a ELSE b

Key(kdf, raw, data) == [kdf |-> kdf, raw |-> raw, data |-> data]

AeadCall(key, nonce, aad, msg) ==
    [key |-> key, nonce |-> nonce, aad |-> aad, msg |-> msg]

Tokens(id, n) == [i \in 1..n |-> 256 + 64 * id + i]

\* cipher.encrypt(nonce, Payload { aad, msg }): the table with the call
\* recorded, and the ciphertext (the message length plus the 16-byte tag)
AeadEncrypt(tab, key, nonce, aad, msg) ==
    LET call == AeadCall(key, nonce, aad, msg)
        seen == {i \in 1..Len(tab) : tab[i] = call}
        id == IF seen = {} THEN Len(tab) + 1 ELSE CHOOSE i \in seen : TRUE
    IN  [tab |-> IF seen = {} THEN Append(tab, call) ELSE tab,
         ct |-> Tokens(id, Len(msg) + TAG_LEN)]

AeadFail == [ok |-> FALSE, msg |-> <<>>]

AeadDecryptNoAuth(tab, key, nonce, aad, ct) ==
    [ok |-> TRUE, msg |-> <<>>]

AeadDecryptAnyAad(tab, key, nonce, aad, ct) ==
    IF Len(ct) < TAG_LEN THEN AeadFail
    ELSE LET id == (ct[1] - 256) \div 64
         IN  IF ct[1] < 256 \/ id \notin 1..Len(tab) THEN AeadFail
             ELSE IF /\ ct = Tokens(id, Len(tab[id].msg) + TAG_LEN)
                     /\ tab[id].key = key
                     /\ tab[id].nonce = nonce
                  THEN [ok |-> TRUE, msg |-> tab[id].msg]
                  ELSE AeadFail

\* cipher.decrypt(nonce, Payload { aad, msg }): the plaintext, if ct is the
\* whole untouched ciphertext of a call made with this key, nonce and aad
AeadDecrypt(tab, key, nonce, aad, ct) ==
    IF Len(ct) < TAG_LEN THEN AeadFail
    ELSE LET id == (ct[1] - 256) \div 64
         IN  IF ct[1] < 256 \/ id \notin 1..Len(tab) THEN AeadFail
             ELSE IF /\ ct = Tokens(id, Len(tab[id].msg) + TAG_LEN)
                     /\ tab[id].key = key
                     /\ tab[id].nonce = nonce
                     /\ tab[id].aad = aad
                  THEN [ok |-> TRUE, msg |-> tab[id].msg]
                  ELSE AeadFail

\* StreamLE31: the per-block nonce is the stream nonce, then the 31-bit
\* block counter and the last-block flag
StreamNonceNoCounter(nonce, counter, last) == nonce \o <<0, last>>

StreamNonce(nonce, counter, last) == nonce \o <<counter, last>>

-----------------------------------------------------------------------------
(* Key derivation and random material *)

\* argon2_hash(raw_key, &salt, &version) / hash_key(raw_key, &salt): argon2id
argon2_hash(raw_key, salt) == Key("argon2id", raw_key, salt)

\* balloon_hash(raw_key, &salt, &version)
balloon_hash(raw_key, salt) == Key("balloon", raw_key, salt)

\* derive(raw_key, salt, version): V1..V3 Argon2id, V4 Balloon
derive(raw_key, salt, version) ==
    IF version = "V4" THEN balloon_hash(raw_key, salt)
    ELSE argon2_hash(raw_key, salt)

\* the 32 random bytes of a master key
gen_master_key(seed) == [i \in 1..32 |-> 40 + seed]

\* the data cipher is initialized with the master key bytes
MasterKey(bytes) == Key("random", "", bytes)

-----------------------------------------------------------------------------
(* crypto/encrypt.rs: the encryption pipelines *)

Keys == {"pw1", "pw2"}

BenchModes == {"WriteToFilesystem", "BenchmarkInMemory"}

\* the header versions the encryption pipelines are run with
EncVersions == {"V3", "V4"}

Event(op, n) == [op |-> op, n |-> n]

\* init_encryption_stream(raw_key, header_type): salt, hashed key, for V4 a
\* fresh master key wrapped under the hashed key with empty AAD, the stream
\* nonce and the header; the stream cipher is keyed with the data key
init_encryption_stream(tab, raw_key, header_type, seed) ==
    LET salt == gen_salt(seed)
        key == derive(raw_key, salt, header_type.version)
        nonce == gen_nonce(header_type.algorithm, "StreamMode", seed)
    IN  IF header_type.version = "V4"
        THEN LET master_key == gen_master_key(seed)
                 wrap_nonce == gen_nonce(header_type.algorithm, "MemoryMode", seed)
                 wrapped == AeadEncrypt(tab, key, wrap_nonce, <<>>, master_key)
             IN  [tab |-> wrapped.tab, key |-> MasterKey(master_key),
                  header |-> Header(header_type, nonce, salt, wrapped.ct, wrap_nonce)]
        ELSE [tab |-> tab, key |-> key,
              header |-> Header(header_type, nonce, salt, None, None)]

\* the read loop of encrypt_bytes_stream_mode: input is what is left of the
\* input file, acc the table, the bytes written and the calls made so far
encrypt_loopOneShot(input, counter, key, nonce, aad, bench, acc) ==
    LET e == AeadEncrypt(acc.tab, key, StreamNonce(nonce, counter, 1), aad, input)
    IN  [tab |-> e.tab,
         out |-> acc.out \o (IF bench = "WriteToFilesystem" THEN e.ct ELSE <<>>),
         log |-> acc.log \o <<Event("encrypt_last", Len(input))>>
                    \o (IF bench = "WriteToFilesystem"
                        THEN <<Event("write", Len(e.ct))>> ELSE <<>>)]

RECURSIVE encrypt_loop(_, _, _, _, _, _, _)
encrypt_loop(input, counter, key, nonce, aad, bench, acc) ==
    LET read_count == Min(BLOCK_SIZE, Len(input))
        msg == SubSeq(input, 1, read_count)
        wr(ct) == IF bench = "WriteToFilesystem" THEN ct ELSE <<>>
        wrlog(ct) == IF bench = "WriteToFilesystem"
                     THEN <<Event("write", Len(ct))>> ELSE <<>>
    IN  IF read_count = BLOCK_SIZE
        THEN LET e == AeadEncrypt(acc.tab, key, StreamNonce(nonce, counter, 0),
                                  aad, msg)
             IN  encrypt_loop(SubSeq(input, read_count + 1, Len(input)),
                              counter + 1, key, nonce, aad, bench,
                              [tab |-> e.tab, out |-> acc.out \o wr(e.ct),
                               log |-> acc.log \o <<Event("encrypt_next", read_count)>>
                                          \o wrlog(e.ct)])
        ELSE LET e == AeadEncrypt(acc.tab, key, StreamNonce(nonce, counter, 1),
                                  aad, msg)
             IN  [tab |-> e.tab, out |-> acc.out \o wr(e.ct),
                  log |-> acc.log \o <<Event("encrypt_last", read_count)>>
                             \o wrlog(e.ct)]

EncResult(res, tab, out, log) == [res |-> res, tab |-> tab, out |-> out, log |-> log]

encrypt_bytes_stream_mode(tab, input, raw_key, bench, algorithm, version, seed) ==
    LET header_type == HeaderType(version, algorithm, "StreamMode")
        init == init_encryption_stream(tab, raw_key, header_type, seed)
        header == init.header
        written == serialize(header)
    IN  IF bench = "WriteToFilesystem" /\ ~written.ok
        THEN EncResult(written.err, tab, <<>>, <<>>)
        ELSE
        LET hout == IF bench = "WriteToFilesystem" THEN written.val ELSE <<>>
            hlog == IF bench = "WriteToFilesystem"
                    THEN <<Event("write_header", Len(written.val))>> ELSE <<>>
            aad == create_aad(header).val
            body == encrypt_loop(input, 0, init.key, header.nonce, aad, bench,
                                 [tab |-> init.tab, out |-> hout, log |-> hlog])
        IN  EncResult("Ok", body.tab, body.out,
                      body.log \o (IF bench = "WriteToFilesystem"
                                   THEN <<Event("flush", 0)>> ELSE <<>>))

encrypt_bytes_memory_mode(tab, data, raw_key, bench, algorithm, version, seed) ==
    LET salt == gen_salt(seed)
        header_type == HeaderType(version, algorithm, "MemoryMode")
        key == argon2_hash(raw_key, salt)
        nonce_bytes == gen_nonce(algorithm, "MemoryMode", seed)
        header == Header(header_type, nonce_bytes, salt, None, None)
        aad == create_aad(header).val
        e == AeadEncrypt(tab, key, header.nonce, aad, data)
        log == <<Event("encrypt", Len(data))>>
        written == serialize(header)
    IN  IF bench = "WriteToFilesystem"
        THEN IF ~written.ok
             THEN EncResult(written.err, e.tab, <<>>, log)
             ELSE EncResult("Ok", e.tab, written.val \o e.ct,
                            log \o <<Event("write_header", Len(written.val)),
                                     Event("write", Len(e.ct))>>)
        ELSE EncResult("Ok", e.tab, <<>>, log)

-----------------------------------------------------------------------------
(* encrypt/crypto.rs: the stream encryptor of the releases that wrote V1 *)
(* and V2 headers                                                          *)

LegacyVersions == {"V1", "V2"}

LegacyAlgorithms == {"Aes256Gcm", "XChaCha20Poly1305"}

\* crate::header::write_to_file(output, &salt, &nonce_bytes, &header_type):
\* the 64-byte record of the version's layout, unused bytes zero
write_to_file(salt, nonce_bytes, header_type) ==
    legacy_layout(Header(header_type, nonce_bytes, salt, None, None), 0)

\* every block goes to encrypt_next / encrypt_last as a bare slice, a
\* Payload with empty aad, under the argon2id-hashed key
legacy_encrypt_bytes_stream_mode(tab, input, raw_key, bench, algorithm, version, seed) ==
    LET salt == gen_salt(seed)
        header_type == HeaderType(version, algorithm, "StreamMode")
        nonce_bytes == gen_nonce(algorithm, "StreamMode", seed)
        key == argon2_hash(raw_key, salt)
        hout == IF bench = "WriteToFilesystem"
                THEN write_to_file(salt, nonce_bytes, header_type) ELSE <<>>
        hlog == IF bench = "WriteToFilesystem"
                THEN <<Event("write_header", Len(hout))>> ELSE <<>>
        body == encrypt_loop(input, 0, key, nonce_bytes, <<>>, bench,
                             [tab |-> tab, out |-> hout, log |-> hlog])
    IN  EncResult("Ok", body.tab, body.out,
                  body.log \o (IF bench = "WriteToFilesystem"
                               THEN <<Event("flush", 0)>> ELSE <<>>))

-----------------------------------------------------------------------------
(* decrypt/crypto.rs: the decryption pipelines *)

CallEvent(op, n, aad) == [op |-> op, n |-> n, aad |-> aad]

DecResult(res, out, log) == [res |-> res, out |-> out, log |-> log]

\* the read loop of decrypt_bytes_stream_mode: input is what is left of the
\* input file after the header; every block is handed to the stream cipher
\* as a bare slice, a Payload with empty aad
decrypt_failedDiscards(out, log) == DecResult("DecryptError", <<>>, log)

\* Err(_) => return Err(anyhow!("Unable to decrypt ...")): out is what the
\* earlier blocks wrote to the output
decrypt_failed(out, log) == DecResult("DecryptError", out, log)

RECURSIVE decrypt_loopNoLast(_, _, _, _, _, _, _)
decrypt_loopNoLast(tab, input, counter, key, nonce, bench, acc) ==
    LET read_count == Min(BLOCK_SIZE + 16, Len(input))
        last == IF read_count = BLOCK_SIZE + 16 THEN 0 ELSE 1
        d == AeadDecrypt(tab, key, StreamNonce(nonce, counter, last), <<>>,
                         SubSeq(input, 1, read_count))
    IN  IF read_count = 0 THEN DecResult("Ok", acc.out, acc.log)
        ELSE IF ~d.ok THEN DecResult("DecryptError", acc.out, acc.log)
        ELSE decrypt_loopNoLast(tab, SubSeq(input, read_count + 1, Len(input)),
                                counter + 1, key, nonce, bench,
                                [out |-> acc.out \o d.msg, log |-> acc.log])

RECURSIVE decrypt_loop(_, _, _, _, _, _, _)
decrypt_loop(tab, input, counter, key, nonce, bench, acc) ==
    LET read_count == Min(BLOCK_SIZE + 16, Len(input))
        buffer == SubSeq(input, 1, read_count)
        wr(msg) == IF bench = "WriteToFilesystem" THEN msg ELSE <<>>
        wrlog(msg) == IF bench = "WriteToFilesystem"
                      THEN <<Event("write", Len(msg))>> ELSE <<>>
    IN  IF read_count = BLOCK_SIZE + 16
        THEN LET d == AeadDecrypt(tab, key, StreamNonce(nonce, counter, 0),
                                  <<>>, buffer)
                 log == acc.log \o <<CallEvent("decrypt_next", read_count, <<>>)>>
             IN  IF ~d.ok THEN decrypt_failed(acc.out, log)
                 ELSE decrypt_loop(tab, SubSeq(input, read_count + 1, Len(input)),
                                   counter + 1, key, nonce, bench,
                                   [out |-> acc.out \o wr(d.msg),
                                    log |-> log \o wrlog(d.msg)])
        ELSE LET d == AeadDecrypt(tab, key, StreamNonce(nonce, counter, 1),
                                  <<>>, buffer)
                 log == acc.log \o <<CallEvent("decrypt_last", read_count, <<>>)>>
             IN  IF ~d.ok THEN decrypt_failed(acc.out, log)
                 ELSE DecResult("Ok", acc.out \o wr(d.msg),
                                log \o wrlog(d.msg)
                                    \o (IF bench = "WriteToFilesystem"
                                        THEN <<Event("flush", 0)>> ELSE <<>>))

decrypt_bytes_stream_mode(tab, input, raw_key, header, bench) ==
    LET key == argon2_hash(raw_key, header.salt)
    IN  decrypt_loop(tab, input, 0, key, header.nonce, bench,
                     [out |-> <<>>, log |-> <<>>])

decrypt_bytes_memory_mode(tab, header, data, raw_key, bench) ==
    LET key == argon2_hash(raw_key, header.salt)
        d == AeadDecrypt(tab, key, header.nonce, <<>>, data)
        log == <<CallEvent("decrypt", Len(data), <<>>)>>
    IN  IF ~d.ok THEN DecResult("DecryptError", <<>>, log)
        ELSE IF bench = "WriteToFilesystem"
             THEN DecResult("Ok", d.msg, log \o <<Event("write", Len(d.msg))>>)
             ELSE DecResult("Ok", <<>>, log)

\* the decrypt subcommand: parse the header at the start of the input, then
\* run the pipeline of the header's mode over the rest of the input
decrypt(tab, input, raw_key, bench) ==
    LET d == deserialize(input)
        rest == SubSeq(input, d.size + 1, Len(input))
    IN  IF ~d.ok THEN DecResult(d.err, <<>>, <<>>)
        ELSE IF d.header.header_type.mode = "StreamMode"
             THEN decrypt_bytes_stream_mode(tab, rest, raw_key, d.header, bench)
             ELSE decrypt_bytes_memory_mode(tab, d.header, rest, raw_key, bench)

-----------------------------------------------------------------------------
(* subcommands/header.rs: key rotation *)

Max(a, b) == IF a > b THEN a ELSE b

\* writer.write_all(bytes) with the file position at offset off
WriteAt(f, off, bytes) ==
    [i \in 1..Max(Len(f), off + Len(bytes)) |->
        IF i > off /\ i <= off + Len(bytes) THEN bytes[i - off] ELSE f[i]]

UpdResult(res, tab, f) == [res |-> res, tab |-> tab, file |-> f]

header_newFreshSalt(header, master_key_encrypted, master_key_nonce) ==
    Header(header.header_type, header.nonce, Zeros(SALT_LEN),
           master_key_encrypted, master_key_nonce)

\* the header update_key writes back
header_new(header, master_key_encrypted, master_key_nonce) ==
    Header(header.header_type, header.nonce, header.salt,
           master_key_encrypted, master_key_nonce)

seek_currentStays(position, offset) == position

\* input_file.seek(SeekFrom::Current(offset)) with the file at position
seek_current(position, offset) == position + offset

below_V4Never(version) == FALSE

\* header.header_type.version < HeaderVersion::V4, the versions in the order
\* they are declared
below_V4(version) == version \in {"V1", "V2", "V3"}

update_key(tab, input, raw_key_old, raw_key_new, seed) ==
    LET d == deserialize(input)
        header == d.header
    IN  IF ~d.ok THEN UpdResult(d.err, tab, input)
        ELSE IF below_V4(header.header_type.version)
        THEN UpdResult("UnsupportedOperation", tab, input)
        ELSE
        LET header_size == get_size(header)
            key_old == balloon_hash(raw_key_old, header.salt)
            key_new == balloon_hash(raw_key_new, header.salt)
            master_key_result == AeadDecrypt(tab, key_old, header.master_key_nonce,
                                             <<>>, header.master_key_encrypted)
        IN  IF ~master_key_result.ok THEN UpdResult("KeyDecryptError", tab, input)
            ELSE IF Len(master_key_result.msg) > 32 THEN UpdResult("panic", tab, input)
            ELSE
            LET master_key == [i \in 1..32 |->
                                 IF i <= Len(master_key_result.msg)
                                 THEN master_key_result.msg[i] ELSE 0]
                master_key_nonce_new ==
                    gen_nonce(header.header_type.algorithm, "MemoryMode", seed)
                e == AeadEncrypt(tab, key_new, master_key_nonce_new, <<>>, master_key)
                written == serialize(header_new(header, e.ct, master_key_nonce_new))
            IN  IF ~written.ok THEN UpdResult(written.err, e.tab, input)
                ELSE UpdResult("Ok", e.tab,
                               WriteAt(input, seek_current(d.size, -header_size),
                                       written.val))

-----------------------------------------------------------------------------
(* subcommands/header.rs: dump, restore, strip. The prompts are answered   *)
(* yes (SkipMode::HidePrompts).                                            *)

HeaderOp(res, out) == [res |-> res, out |-> out]

\* dump(input, output): out is what is written to the created output file,
\* empty when it is not created
dump(input) ==
    IF ~read_exact(input, 64).ok THEN HeaderOp("ReadError", <<>>)
    ELSE LET header == read_exact(input, 64).buf
         IN  IF ~deserialize(header).ok THEN HeaderOp("Exit1", <<>>)
             ELSE HeaderOp("Ok", header)

\* restore(input, output): input is the dump, out the target file afterwards
restore(input, output) ==
    IF ~read_exact(input, 64).ok THEN HeaderOp("ReadError", output)
    ELSE LET header == read_exact(input, 64).buf
         IN  IF ~deserialize(header).ok THEN HeaderOp("Exit1", output)
             ELSE HeaderOp("Ok", WriteAt(output, 0, header))

\* the file position strip writes its zeros at: 64 bytes back from where
\* deserialize left it
strip_seek(position) == position - 64

\* strip(input): out is the input file afterwards
strip(input) ==
    LET d == deserialize(input)
    IN  IF ~d.ok THEN HeaderOp("Exit1", input)
        ELSE HeaderOp("Ok", WriteAt(input, strip_seek(d.size), Zeros(64)))

-----------------------------------------------------------------------------
(* protected.rs: Protected<T>, a wrapper that zeroizes its value on drop.  *)
(* T is a byte buffer; zeroize overwrites it with zeros.                   *)

zeroize(data) == Zeros(Len(data))

\* Protected::new(value): the value is moved into the wrapper
new(value) == [data |-> value]

\* Protected::expose(&self): a reference to the stored value
expose(self) == self.data

dropKeepsData(self) == self

\* Drop::drop(&mut self): what the buffer holds when it is released
drop(self) == [data |-> zeroize(self.data)]

\* Debug::fmt(&self, f): what is written to the formatter
fmt(self) == "[REDACTED]"

-----------------------------------------------------------------------------
(* key.rs: where the user's key comes from *)

KeySource(source, ok) == [source |-> source, ok |-> ok]

\* get_user_key(keyfile, validation): keyfile is "" when none was given,
\* dexios_key is whether DEXIOS_KEY is set, readable whether the keyfile can
\* be read, terminal whether a password prompt can be answered
get_user_key(keyfile, validation, dexios_key, readable, terminal) ==
    IF keyfile # "" THEN KeySource("keyfile", readable)
    ELSE IF dexios_key THEN KeySource("DEXIOS_KEY", TRUE)
    ELSE IF validation THEN KeySource("prompt twice", terminal)
    ELSE KeySource("prompt", terminal)

-----------------------------------------------------------------------------
(* pack.rs: a directory is zipped into a temporary archive and encrypted,  *)
(* or decrypted into a temporary archive and unzipped.  Each function is   *)
(* the sequence of its fallible steps; a failing step returns its error    *)
(* with the ? operator.                                                    *)

\* encrypt_directory: index the input, create <output>.<8 alphanumerics>,
\* fill the archive, encrypt it to output, erase it
EncryptDirectorySteps ==
    <<"get_paths_in_dir", "File::create", "add_directory", "start_file",
      "File::open", "write_all", "finish", "encrypt::stream_mode",
      "secure_erase">>

\* decrypt_directory: decrypt input to <input>.<8 alphanumerics>, open it as
\* an archive, extract every entry, erase it
DecryptDirectorySteps ==
    <<"decrypt::stream_mode", "File::open", "ZipArchive::new", "by_index",
      "create_dir_all", "get_answer", "File::create", "copy", "secure_erase">>

StepIndex(steps, step) == CHOOSE i \in 1..Len(steps) : steps[i] = step

PackResult(res, tmp) == [res |-> res, tmp |-> tmp]

\* fails: the step that returns an error, "none" when every step succeeds;
\* tmp: the temporary archive when the function returns
encrypt_directory(fails) ==
    IF fails = "none" THEN PackResult("Ok", "erased")
    ELSE IF StepIndex(EncryptDirectorySteps, fails)
              <= StepIndex(EncryptDirectorySteps, "File::create")
    THEN PackResult("Err", "absent")
    ELSE PackResult("Err", "present")

\* created: whether the failing decrypt::stream_mode had created its output
decrypt_directory(fails, created) ==
    IF fails = "none" THEN PackResult("Ok", "erased")
    ELSE IF fails = "decrypt::stream_mode" /\ ~created
    THEN PackResult("Err", "absent")
    ELSE PackResult("Err", "present")

Range(seq) == {seq[i] : i \in 1..Len(seq)}

-----------------------------------------------------------------------------
(* The tool at work: a plaintext file is encrypted once; the encrypted     *)
(* file is then decrypted, re-keyed, and (SpecTamper) has a bit flipped.   *)

PlainLens == {0, 1, BLOCK_SIZE - 1, BLOCK_SIZE, BLOCK_SIZE + 1, 3 * BLOCK_SIZE + 5}

PlainOf(n) == [i \in 1..n |-> i]

NoEnc == [res |-> "none", mode |-> "", algorithm |-> "", key |-> "",
          version |-> "", bench |-> "", log |-> <<>>]

NoDec == [res |-> "none", out |-> <<>>, log |-> <<>>, key |-> "", bench |-> ""]

NoUpd == [res |-> "none", old |-> "", new |-> "", before |-> <<>>]

\* dump: res, src the input file as it was, dest the output file (empty: not
\* created); strip: res, pre the file before and stripped the file after;
\* restore: res, at the target before and restored the target after; log:
\* the runs in order
NoHops == [dump |-> "none", src |-> <<>>, dest |-> <<>>,
           strip |-> "none", pre |-> <<>>, stripped |-> <<>>,
           restore |-> "none", at |-> <<>>, restored |-> <<>>, log |-> <<>>]

\* main: secure_erase runs on the source when the operation returned Ok and
\* --erase was given
erase_afterAlways(result, flag) == flag

erase_after(result, flag) == result = "Ok" /\ flag

HeaderIdle ==
    /\ h_in = NoHeader
    /\ h_bytes = <<>>
    /\ h_orig = <<>>
    /\ h_ser = NoResult
    /\ h_aad = NoResult
    /\ h_de = NoParse
    /\ h_de0 = NoParse
    /\ h_wr = NoWrite

Init ==
    /\ plain \in {PlainOf(n) : n \in PlainLens}
    /\ file = <<>>
    /\ orig = <<>>
    /\ ctab = <<>>
    /\ enc = NoEnc
    /\ dec = NoDec
    /\ upd = NoUpd
    /\ tam = 0
    /\ cut = -1
    /\ moved = NoMove
    /\ hops = NoHops
    /\ erase \in BOOLEAN
    /\ wiped = {}
    /\ HeaderIdle
    /\ UtilIdle

Encrypted(r, mode, algorithm, raw_key, version, bench) ==
    /\ file' = r.out
    /\ orig' = r.out
    /\ ctab' = r.tab
    /\ enc' = [res |-> r.res, mode |-> mode, algorithm |-> algorithm,
               key |-> raw_key, version |-> version, bench |-> bench,
               log |-> r.log]
    /\ wiped' = IF erase_after(r.res, erase) THEN wiped \cup {"plain"} ELSE wiped
    /\ UNCHANGED <<plain, dec, upd, tam, cut, moved, hops, erase>>
    /\ UNCHANGED hvars
    /\ UNCHANGED uvars

\* dexios encrypt --stream
EncryptStream ==
    /\ enc = NoEnc
    /\ \E algorithm \in Algorithms, raw_key \in Keys, version \in EncVersions,
          bench \in BenchModes, seed \in Seeds :
          Encrypted(encrypt_bytes_stream_mode(ctab, plain, raw_key, bench,
                                              algorithm, version, seed),
                    "StreamMode", algorithm, raw_key, version, bench)

\* dexios encrypt --memory
EncryptMemory ==
    /\ enc = NoEnc
    /\ \E algorithm \in Algorithms, raw_key \in Keys, version \in EncVersions,
          bench \in BenchModes, seed \in Seeds :
          Encrypted(encrypt_bytes_memory_mode(ctab, plain, raw_key, bench,
                                              algorithm, version, seed),
                    "MemoryMode", algorithm, raw_key, version, bench)

\* dexios encrypt --stream, as run by a release that wrote V1 or V2 headers
EncryptStreamLegacy ==
    /\ enc = NoEnc
    /\ \E algorithm \in LegacyAlgorithms, raw_key \in Keys,
          version \in LegacyVersions, bench \in BenchModes, seed \in Seeds :
          Encrypted(legacy_encrypt_bytes_stream_mode(ctab, plain, raw_key, bench,
                                                     algorithm, version, seed),
                    "StreamMode", algorithm, raw_key, version, bench)

\* dexios decrypt
Decrypt ==
    /\ file # <<>>
    /\ "file" \notin wiped
    /\ \E raw_key \in Keys, bench \in BenchModes :
          LET r == decrypt(ctab, file, raw_key, bench)
          IN  /\ dec' = [res |-> r.res, out |-> r.out, log |-> r.log,
                          key |-> raw_key, bench |-> bench]
              /\ wiped' = IF erase_after(r.res, erase)
                          THEN wiped \cup {"file"} ELSE wiped
    /\ UNCHANGED <<plain, file, orig, ctab, enc, upd, tam, cut, moved, hops,
                 erase>>
    /\ UNCHANGED hvars
    /\ UNCHANGED uvars

\* dexios header update
UpdateKey ==
    /\ file # <<>>
    /\ "file" \notin wiped
    /\ upd = NoUpd
    /\ \E raw_key_old \in Keys, raw_key_new \in Keys, seed \in Seeds :
          LET r == update_key(ctab, file, raw_key_old, raw_key_new, seed)
          IN  /\ file' = r.file
              /\ ctab' = r.tab
              /\ upd' = [res |-> r.res, old |-> raw_key_old, new |-> raw_key_new,
                         before |-> file]
    /\ dec' = NoDec
    /\ UNCHANGED <<plain, orig, enc, tam, cut, moved, hops, erase, wiped>>
    /\ UNCHANGED hvars
    /\ UNCHANGED uvars

NextCore ==
    \/ EncryptStream \/ EncryptMemory \/ EncryptStreamLegacy
    \/ Decrypt \/ UpdateKey

Next == NextCore

Spec == Init /\ [][Next]_vars

-----------------------------------------------------------------------------
(* The same tool with an adversary that flips one bit of the stored file *)

Pow2(n) == IF n = 0 THEN 1 ELSE IF n = 1 THEN 2 ELSE IF n = 2 THEN 4
           ELSE IF n = 3 THEN 8 ELSE IF n = 4 THEN 16 ELSE IF n = 5 THEN 32
           ELSE IF n = 6 THEN 64 ELSE 128

\* a byte with one bit flipped; a flipped ciphertext byte is the negated
\* token, a byte no cipher call has produced
FlipBit(b, bit) ==
    IF b \in 0..255
    THEN IF (b \div Pow2(bit)) % 2 = 1 THEN b - Pow2(bit) ELSE b + Pow2(bit)
    ELSE -b

\* the bits of byte pos that are flipped: every bit of a tag byte, the low bit
\* of any other byte (the codec only copies those bytes, the cipher only
\* compares them)
TamperBits(pos) == IF pos <= 6 THEN 0..7 ELSE {0}

Tamper ==
    /\ file # <<>>
    /\ "file" \notin wiped
    /\ tam = 0
    /\ dec = NoDec
    /\ upd = NoUpd
    /\ \E pos \in 1..Len(file) : \E bit \in TamperBits(pos) :
          /\ file' = [file EXCEPT ![pos] = FlipBit(file[pos], bit)]
          /\ tam' = pos
    /\ UNCHANGED <<plain, orig, ctab, enc, dec, upd, cut, moved, hops,
                 erase, wiped>>
    /\ UNCHANGED hvars
    /\ UNCHANGED uvars

NextTamper == NextCore \/ Tamper

InitTamper ==
    /\ plain = PlainOf(BLOCK_SIZE + 1)
    /\ file = <<>>
    /\ orig = <<>>
    /\ ctab = <<>>
    /\ enc = NoEnc
    /\ dec = NoDec
    /\ upd = NoUpd
    /\ tam = 0
    /\ cut = -1
    /\ moved = NoMove
    /\ hops = NoHops
    /\ erase = FALSE
    /\ wiped = {}
    /\ HeaderIdle
    /\ UtilIdle

SpecTamper == InitTamper /\ [][NextTamper]_vars

\* the encrypted file loses its end: it is cut to n bytes, the header and
\* possibly part of the ciphertext remain
Truncate ==
    /\ file # <<>>
    /\ "file" \notin wiped
    /\ cut = -1
    /\ moved = NoMove
    /\ tam = 0
    /\ dec = NoDec
    /\ upd = NoUpd
    /\ LET d == deserialize(file)
       IN  /\ d.ok
           /\ \E n \in d.size..(Len(file) - 1) :
                 /\ file' = SubSeq(file, 1, n)
                 /\ cut' = n
    /\ UNCHANGED <<plain, orig, ctab, enc, dec, upd, tam, moved, hops, erase,
                 wiped>>
    /\ UNCHANGED hvars
    /\ UNCHANGED uvars

NextTruncate == NextCore \/ Truncate

TruncateLens == {0, BLOCK_SIZE, 2 * BLOCK_SIZE + 1}

InitTruncate ==
    /\ plain \in {PlainOf(n) : n \in TruncateLens}
    /\ file = <<>>
    /\ orig = <<>>
    /\ ctab = <<>>
    /\ enc = NoEnc
    /\ dec = NoDec
    /\ upd = NoUpd
    /\ tam = 0
    /\ cut = -1
    /\ moved = NoMove
    /\ hops = NoHops
    /\ erase = FALSE
    /\ wiped = {}
    /\ HeaderIdle
    /\ UtilIdle

SpecTruncate == InitTruncate /\ [][NextTruncate]_vars

\* the ciphertext blocks of a stream body, as the encryptor wrote them: full
\* blocks of BLOCK_SIZE + 16 bytes, then the last block
RECURSIVE BlocksOf(_)
BlocksOf(body) ==
    IF Len(body) < BLOCK_SIZE + 16 THEN <<body>>
    ELSE <<SubSeq(body, 1, BLOCK_SIZE + 16)>>
             \o BlocksOf(SubSeq(body, BLOCK_SIZE + 17, Len(body)))

RECURSIVE Concat(_)
Concat(seqs) == IF seqs = <<>> THEN <<>> ELSE Head(seqs) \o Concat(Tail(seqs))

SwapBlocks(bs, i, j) ==
    [k \in 1..Len(bs) |-> IF k = i THEN bs[j] ELSE IF k = j THEN bs[i] ELSE bs[k]]

\* a copy of block i is inserted after block j
DuplicateBlock(bs, i, j) ==
    SubSeq(bs, 1, j) \o <<bs[i]>> \o SubSeq(bs, j + 1, Len(bs))

RemoveBlock(bs, i) == SubSeq(bs, 1, i - 1) \o SubSeq(bs, i + 1, Len(bs))

\* the blocks of the encrypted stream are rearranged on disk: two are
\* swapped, one is duplicated, or one that is not the last is removed
Reorder ==
    /\ file # <<>>
    /\ "file" \notin wiped
    /\ moved = NoMove
    /\ cut = -1
    /\ tam = 0
    /\ dec = NoDec
    /\ upd = NoUpd
    /\ enc.mode = "StreamMode"
    /\ LET d == deserialize(file)
           bs == BlocksOf(SubSeq(file, d.size + 1, Len(file)))
           hd == SubSeq(file, 1, d.size)
       IN  /\ d.ok
           /\ \/ \E i \in 1..Len(bs), j \in 1..Len(bs) :
                    /\ i < j
                    /\ file' = hd \o Concat(SwapBlocks(bs, i, j))
                    /\ moved' = [kind |-> "swap", i |-> i, j |-> j]
              \/ \E i \in 1..Len(bs), j \in 1..Len(bs) :
                    /\ file' = hd \o Concat(DuplicateBlock(bs, i, j))
                    /\ moved' = [kind |-> "duplicate", i |-> i, j |-> j]
              \/ \E i \in 1..(Len(bs) - 1) :
                    /\ file' = hd \o Concat(RemoveBlock(bs, i))
                    /\ moved' = [kind |-> "remove", i |-> i, j |-> i]
    /\ UNCHANGED <<plain, orig, ctab, enc, dec, upd, tam, cut, hops, erase, wiped>>
    /\ UNCHANGED hvars
    /\ UNCHANGED uvars

NextReorder == NextCore \/ Reorder

ReorderLens == {2 * BLOCK_SIZE + 1, 3 * BLOCK_SIZE}

InitReorder ==
    /\ plain \in {PlainOf(n) : n \in ReorderLens}
    /\ file = <<>>
    /\ orig = <<>>
    /\ ctab = <<>>
    /\ enc = NoEnc
    /\ dec = NoDec
    /\ upd = NoUpd
    /\ tam = 0
    /\ cut = -1
    /\ moved = NoMove
    /\ hops = NoHops
    /\ erase = FALSE
    /\ wiped = {}
    /\ HeaderIdle
    /\ UtilIdle

SpecReorder == InitReorder /\ [][NextReorder]_vars

Dump ==
    /\ file # <<>>
    /\ "file" \notin wiped
    /\ hops.dump = "none"
    /\ LET r == dump(file)
       IN  hops' = [hops EXCEPT !.dump = r.res, !.src = file, !.dest = r.out,
                                !.log = @ \o <<"dump">>]
    /\ UNCHANGED <<plain, file, orig, ctab, enc, dec, upd, tam, cut, moved,
                 erase, wiped>>
    /\ UNCHANGED hvars
    /\ UNCHANGED uvars

\* strip runs once, and once more on a file that no longer parses
Strip ==
    /\ file # <<>>
    /\ "file" \notin wiped
    /\ \/ hops.strip = "none"
       \/ hops.strip = "Ok" /\ ~deserialize(file).ok
    /\ LET r == strip(file)
       IN  /\ file' = r.out
           /\ hops' = [hops EXCEPT !.strip = r.res, !.pre = file,
                                    !.stripped = r.out,
                                    !.log = @ \o <<"strip">>]
    /\ UNCHANGED <<plain, orig, ctab, enc, dec, upd, tam, cut, moved,
                 erase, wiped>>
    /\ UNCHANGED hvars
    /\ UNCHANGED uvars

\* restore is run on a dump file that exists
Restore ==
    /\ file # <<>>
    /\ "file" \notin wiped
    /\ hops.dump = "Ok"
    /\ hops.restore = "none"
    /\ LET r == restore(hops.dest, file)
       IN  /\ file' = r.out
           /\ hops' = [hops EXCEPT !.restore = r.res, !.at = file,
                                    !.restored = r.out,
                                    !.log = @ \o <<"restore">>]
    /\ UNCHANGED <<plain, orig, ctab, enc, dec, upd, tam, cut, moved,
                 erase, wiped>>
    /\ UNCHANGED hvars
    /\ UNCHANGED uvars

NextHeaderOps == NextCore \/ Dump \/ Strip \/ Restore

HeaderOpsLens == {1, BLOCK_SIZE + 1}

InitHeaderOps ==
    /\ plain \in {PlainOf(n) : n \in HeaderOpsLens}
    /\ file = <<>>
    /\ orig = <<>>
    /\ ctab = <<>>
    /\ enc = NoEnc
    /\ dec = NoDec
    /\ upd = NoUpd
    /\ tam = 0
    /\ cut = -1
    /\ moved = NoMove
    /\ hops = NoHops
    /\ erase = FALSE
    /\ wiped = {}
    /\ HeaderIdle
    /\ UtilIdle

SpecHeaderOps == InitHeaderOps /\ [][NextHeaderOps]_vars

-----------------------------------------------------------------------------
(* Claims about the header codec (SpecHeader) *)

\* the nonce length table of the data model: base 24 / 12 / 15, four bytes
\* fewer in stream mode
NonceLength(algorithm, mode) ==
    (CASE algorithm = "XChaCha20Poly1305" -> 24
       [] algorithm = "Aes256Gcm" -> 12
       [] algorithm = "DeoxysII256" -> 15)
    - (IF mode = "StreamMode" THEN 4 ELSE 0)

VersionTag(v) ==
    CASE v = "V1" -> <<222, 1>> [] v = "V2" -> <<222, 2>>
      [] v = "V3" -> <<222, 3>> [] v = "V4" -> <<222, 4>>

AlgorithmTag(a) ==
    CASE a = "XChaCha20Poly1305" -> <<14, 1>> [] a = "Aes256Gcm" -> <<14, 2>>
      [] a = "DeoxysII256" -> <<14, 3>>

ModeTag(m) ==
    CASE m = "StreamMode" -> <<12, 1>> [] m = "MemoryMode" -> <<12, 2>>

\* every byte of b at zero-based offsets [a, z) is zero
ZeroRange(b, a, z) == \A i \in (a + 1)..z : b[i] = 0

\* the record differs from its first form at most inside [a, z)
DiffersOnlyIn(a, z) ==
    /\ Len(h_bytes) = Len(h_orig)
    /\ \A i \in 1..Len(h_bytes) : (i <= a \/ i > z) => h_bytes[i] = h_orig[i]

\* C6: two V4 headers that differ only in the wrapped-key and
\* wrapped-key-nonce region, bytes [48, 96+m), deserialize to the same AAD.
C6_AadIgnoresWrappedKeyRegion ==
    (/\ Parsed /\ h_de.ok /\ h_de0.ok
     /\ h_de0.header.header_type.version = "V4"
     /\ DiffersOnlyIn(48, 96 + NonceLength(h_de0.header.header_type.algorithm,
                                           "MemoryMode")))
        => h_de.aad = h_de0.aad

C6_Witness ==
    /\ Parsed /\ h_de.ok /\ h_de0.ok
    /\ h_de0.header.header_type.version = "V4"
    /\ h_bytes # h_orig
    /\ DiffersOnlyIn(48, 96 + NonceLength(h_de0.header.header_type.algorithm,
                                          "MemoryMode"))
    /\ h_de.header.master_key_nonce # h_de0.header.master_key_nonce

\* C7: the AAD deserialize returns is the whole 64-byte header for V3, and
\* for V4 bytes [0,48) followed by bytes [96+m,128); its length is 64 for V3
\* and 80-m for V4, m the memory-mode nonce length of the algorithm.
C7_AadRegion ==
    (Parsed /\ h_de.ok) =>
        LET v == h_de.header.header_type.version
            m == NonceLength(h_de.header.header_type.algorithm, "MemoryMode")
        IN  /\ v = "V3" =>
                /\ Len(h_de.aad) = 64
                /\ \A i \in 1..64 : h_de.aad[i] = h_bytes[i]
            /\ v = "V4" =>
                /\ Len(h_de.aad) = 80 - m
                /\ \A i \in 1..48 : h_de.aad[i] = h_bytes[i]
                /\ \A i \in 1..(32 - m) : h_de.aad[48 + i] = h_bytes[96 + m + i]

C7_Witness ==
    /\ Parsed /\ h_de.ok
    /\ h_de.header.header_type.version = "V4"
    /\ h_de.header.header_type.algorithm = "DeoxysII256"
    /\ Len(h_de.aad) = 65
    /\ h_bytes # h_orig

\* C8: for every header h of every version, create_aad(h) is the byte
\* sequence deserialize returns as AAD for h's on-disk form (empty for V1 and
\* V2, the whole header for V3, the carve-out for V4).
C8_CreateAadMatchesDeserialize ==
    (h_aad # NoResult /\ Parsed /\ Untouched /\ h_de.ok)
        => (h_aad.ok /\ h_aad.val = h_de.aad)

\* C9: serialize of a V3 or V4 header with correctly sized fields returns
\* exactly 64 (V3) or 128 (V4) bytes, every field at its offset of the
\* layout and every reserved or padding byte zero.
C9_SerializeLayout ==
    (/\ h_ser # NoResult
     /\ h_in.header_type.version \in {"V3", "V4"}
     /\ Len(h_in.nonce) = NonceLength(h_in.header_type.algorithm, h_in.header_type.mode)
     /\ Len(h_in.salt) = 16)
        =>
        LET b == h_ser.val
            n == NonceLength(h_in.header_type.algorithm, h_in.header_type.mode)
            m == NonceLength(h_in.header_type.algorithm, "MemoryMode")
        IN  /\ h_ser.ok
            /\ Slice(b, 0, 2) = VersionTag(h_in.header_type.version)
            /\ Slice(b, 2, 4) = AlgorithmTag(h_in.header_type.algorithm)
            /\ Slice(b, 4, 6) = ModeTag(h_in.header_type.mode)
            /\ Slice(b, 6, 22) = h_in.salt
            /\ h_in.header_type.version = "V3" =>
                /\ Len(b) = 64
                /\ ZeroRange(b, 22, 38)
                /\ Slice(b, 38, 38 + n) = h_in.nonce
                /\ ZeroRange(b, 38 + n, 64)
            /\ h_in.header_type.version = "V4" =>
                /\ Len(b) = 128
                /\ Slice(b, 22, 22 + n) = h_in.nonce
                /\ ZeroRange(b, 22 + n, 48)
                /\ Slice(b, 48, 96) = h_in.master_key_encrypted
                /\ Slice(b, 96, 96 + m) = h_in.master_key_nonce
                /\ ZeroRange(b, 96 + m, 128)

C9_Witness ==
    /\ h_ser.ok
    /\ h_in.header_type.version = "V3"
    /\ h_in.header_type.mode = "StreamMode"
    /\ Len(h_ser.val) = 64

\* C10: for a V3 or V4 header h with correctly sized fields,
\* deserialize(serialize(h)) succeeds and returns a header equal to h.
C10_SerializeRoundTrip ==
    (h_ser.ok /\ Untouched /\ Parsed)
        => (/\ h_de.ok
            /\ h_de.header.header_type = h_in.header_type
            /\ h_de.header.salt = h_in.salt
            /\ h_de.header.nonce = h_in.nonce
            /\ h_de.header.master_key_encrypted = h_in.master_key_encrypted
            /\ h_de.header.master_key_nonce = h_in.master_key_nonce)

C10_Witness ==
    /\ h_ser.ok /\ Untouched /\ Parsed /\ h_de.ok
    /\ h_in.header_type.version = "V3"
    /\ h_de.header = h_in

\* the record names a version, an algorithm and a mode and is long enough
LegacyVersion(b) ==
    CASE Slice(b, 0, 2) = VersionTag("V1") -> "V1"
      [] Slice(b, 0, 2) = VersionTag("V2") -> "V2"
      [] OTHER -> "None"

KnownAlgorithm(b) == \E a \in Algorithms : Slice(b, 2, 4) = AlgorithmTag(a)

KnownMode(b) == \E m \in Modes : Slice(b, 4, 6) = ModeTag(m)

\* C11: serialize of a V1 or V2 header returns an error
\* (UnsupportedSerialization) and no bytes, for every algorithm and mode, and
\* Header::write of such a header writes nothing to the writer.
C11_LegacySerializeFails ==
    h_in.header_type.version \in {"V1", "V2"} =>
        /\ h_ser # NoResult =>
              (~h_ser.ok /\ h_ser.err = "UnsupportedSerialization" /\ h_ser.val = <<>>)
        /\ h_wr # NoWrite =>
              (h_wr.res = "UnsupportedSerialization" /\ h_wr.out = h_wr.before)

C11_Witness ==
    /\ h_in.header_type.version = "V2"
    /\ h_wr.res = "UnsupportedSerialization"
    /\ h_wr.before # <<>>
    /\ h_wr.out = h_wr.before

\* C12: a 64-byte V1 or V2 record with known algorithm and mode tags
\* deserializes to a header with empty AAD, salt and nonce taken from the
\* version's layout (V2: salt [6,22), nonce [22,22+n); V1: salt [6,22), nonce
\* [38,38+n)), whatever the other bytes hold; the documentation's example
\* record is V2 / XChaCha20Poly1305 / Stream with a 20-byte nonce.
C12_LegacyDeserialize ==
    (/\ Parsed /\ Len(h_bytes) >= 64
     /\ LegacyVersion(h_bytes) # "None"
     /\ KnownAlgorithm(h_bytes) /\ KnownMode(h_bytes))
        =>
        LET t == h_de.header.header_type
            n == NonceLength(t.algorithm, t.mode)
        IN  /\ h_de.ok
            /\ h_de.aad = <<>>
            /\ t.version = LegacyVersion(h_bytes)
            /\ AlgorithmTag(t.algorithm) = Slice(h_bytes, 2, 4)
            /\ ModeTag(t.mode) = Slice(h_bytes, 4, 6)
            /\ h_de.header.salt = Slice(h_bytes, 6, 22)
            /\ t.version = "V2" => h_de.header.nonce = Slice(h_bytes, 22, 22 + n)
            /\ t.version = "V1" => h_de.header.nonce = Slice(h_bytes, 38, 38 + n)
            /\ h_bytes = DocExample =>
                  /\ t = HeaderType("V2", "XChaCha20Poly1305", "StreamMode")
                  /\ Len(h_de.header.nonce) = 20

C12_Witness ==
    /\ Parsed
    /\ h_bytes = DocExample
    /\ h_de.ok
    /\ h_de.aad = <<>>
    /\ h_de.header.nonce = Slice(DocExample, 22, 42)

\* the record cannot be a header: it is shorter than the two version bytes,
\* its version tag is unknown, it is shorter than the size the version
\* selects, or its algorithm or mode tag is unknown
BadRecord(b) ==
    \/ Len(b) < 2
    \/ \A v \in HeaderVersions : Slice(b, 0, 2) # VersionTag(v)
    \/ Len(b) < (IF Slice(b, 0, 2) = VersionTag("V4") THEN 128 ELSE 64)
    \/ ~KnownAlgorithm(b)
    \/ ~KnownMode(b)

\* C13: deserialize returns an error and no Header whenever the version,
\* algorithm or mode tag is unknown or the reader holds fewer bytes than the
\* header size the version selects.
C13_DeserializeRejects ==
    (Parsed /\ BadRecord(h_bytes)) =>
        (~h_de.ok /\ h_de.err = "MalformedHeader" /\ h_de.header = NoHeader)

C13_Witness ==
    /\ Parsed
    /\ Len(h_bytes) = 127
    /\ ~h_de.ok
    /\ h_de0.ok

-----------------------------------------------------------------------------
(* Claims about the pipelines (Spec, SpecTamper) *)

\* a file written by a successful encryption run and not rewritten since
FreshFile(mode) ==
    /\ enc.res = "Ok"
    /\ enc.version \in EncVersions
    /\ enc.mode = mode
    /\ enc.bench = "WriteToFilesystem"
    /\ file = orig

\* a decryption run with output writes enabled, under the encryption key
DecryptedSameKey ==
    /\ dec # NoDec
    /\ dec.key = enc.key
    /\ dec.bench = "WriteToFilesystem"

\* C1: stream-mode decryption of the header plus ciphertext that
\* encrypt_bytes_stream_mode produced, with the same key, succeeds and
\* outputs exactly the original plaintext, for every algorithm, key and
\* plaintext length (0, 1, BLOCK_SIZE-1, BLOCK_SIZE, BLOCK_SIZE+1,
\* 3*BLOCK_SIZE+5).
C1_StreamRoundTrip ==
    (FreshFile("StreamMode") /\ DecryptedSameKey)
        => (dec.res = "Ok" /\ dec.out = plain)

\* C2: memory-mode decryption of the header plus ciphertext that
\* encrypt_bytes_memory_mode produced, with the same key, succeeds and
\* returns exactly the original plaintext.
C2_MemoryRoundTrip ==
    (FreshFile("MemoryMode") /\ DecryptedSameKey)
        => (dec.res = "Ok" /\ dec.out = plain)

\* the size of the header at the start of an encrypted file
HeaderLen == IF enc.version = "V4" THEN 128 ELSE 64

\* byte pos (counted from 1) lies in the ciphertext or in the AAD-covered
\* region of the header: the whole header for V3, [0,48) and [96+m,128) for
\* V4, nothing of the header for V1 and V2 (their AAD is empty)
Covered(pos) ==
    \/ pos > HeaderLen
    \/ enc.version = "V3"
    \/ enc.version = "V4" /\ pos <= 48
    \/ enc.version = "V4" /\ pos > 96 + NonceLength(enc.algorithm, "MemoryMode")

\* one bit of the covered part of a freshly encrypted file was flipped, and
\* the file was then decrypted with the encryption key
TamperedThenDecrypted ==
    /\ enc.res = "Ok"
    /\ tam # 0
    /\ Covered(tam)
    /\ upd = NoUpd
    /\ dec # NoDec
    /\ dec.key = enc.key

\* the six tag bytes of the file still name a version, algorithm and mode
TagsKnown ==
    /\ \E v \in HeaderVersions : Slice(file, 0, 2) = VersionTag(v)
    /\ \E a \in Algorithms : Slice(file, 2, 4) = AlgorithmTag(a)
    /\ \E m \in Modes : Slice(file, 4, 6) = ModeTag(m)

RotatedThenDecrypted ==
    /\ enc.res = "Ok"
    /\ enc.version = "V4"
    /\ tam = 0
    /\ upd.res = "Ok"
    /\ upd.old = enc.key
    /\ upd.new # upd.old
    /\ dec # NoDec
    /\ dec.bench = "WriteToFilesystem"

\* C4: after a successful update_key(P1 -> P2) on a V4 file encrypted under
\* P1, decryption with P2 yields the original plaintext and decryption with
\* P1 fails at the master-key unwrap with KeyDecryptError.
C4_RotationPreservesPlaintext ==
    RotatedThenDecrypted =>
        /\ dec.key = upd.new => (dec.res = "Ok" /\ dec.out = plain)
        /\ dec.key = upd.old => dec.res = "KeyDecryptError"

\* the headers update_key read and wrote
HeaderBefore == deserialize(upd.before)

HeaderAfter == deserialize(file)

SameDataFields ==
    /\ HeaderAfter.ok
    /\ HeaderAfter.header.header_type = HeaderBefore.header.header_type
    /\ HeaderAfter.header.salt = HeaderBefore.header.salt
    /\ HeaderAfter.header.nonce = HeaderBefore.header.nonce

\* the file differs from what update_key read at most inside the wrapped-key
\* and wrapped-key-nonce region [48, 96+m)
OnlyWrappedKeyNew ==
    /\ Len(file) = Len(upd.before)
    /\ \A i \in 1..Len(file) :
          (i <= 48 \/ i > 96 + NonceLength(HeaderBefore.header.header_type.algorithm,
                                           "MemoryMode"))
              => file[i] = upd.before[i]

\* the padding of the V4 header update_key read, [22+n,48) and [96+m,128),
\* is zero, as serialize writes it
PaddingZero ==
    LET t == HeaderBefore.header.header_type
    IN  /\ ZeroRange(upd.before, 22 + NonceLength(t.algorithm, t.mode), 48)
        /\ ZeroRange(upd.before, 96 + NonceLength(t.algorithm, "MemoryMode"), 128)

\* C5 (as stated): a successful update_key writes a header with the version,
\* algorithm, mode, salt and data nonce of the header it read, the AAD that
\* deserialize returns is the same before and after, and only the wrapped
\* master key and its nonce are new.
C5_RotationKeepsAad ==
    upd.res = "Ok" =>
        /\ SameDataFields
        /\ HeaderAfter.aad = HeaderBefore.aad
        /\ OnlyWrappedKeyNew

\* C5 (amended): a successful update_key always keeps version, algorithm,
\* mode, salt and data nonce; the AAD is the same before and after, and only
\* the wrapped-key region changes, provided the padding of the header it
\* read was zero.
C5_RotationKeepsAadOfCanonicalHeader ==
    upd.res = "Ok" =>
        /\ SameDataFields
        /\ PaddingZero => (HeaderAfter.aad = HeaderBefore.aad /\ OnlyWrappedKeyNew)

C5_Witness ==
    /\ upd.res = "Ok"
    /\ PaddingZero
    /\ upd.new # upd.old
    /\ file # upd.before
    /\ HeaderAfter.aad = HeaderBefore.aad

IsCipherCall(e) == e.op \in {"encrypt_next", "encrypt_last"}

\* the cipher calls of the encryption run, in order
CipherCalls == SelectSeq(enc.log, IsCipherCall)

\* a stream-mode run of encrypt_bytes_stream_mode that returned Ok
StreamEncrypted ==
    /\ enc.res = "Ok"
    /\ enc.mode = "StreamMode"
    /\ enc.version \in EncVersions

\* C14: for a plaintext of length L, encrypt_bytes_stream_mode makes exactly
\* L div BLOCK_SIZE encrypt_next calls, each on BLOCK_SIZE bytes, then exactly
\* one encrypt_last call on the remaining L mod BLOCK_SIZE bytes (an empty
\* tail for an exact multiple), and no cipher call after it; the ciphertext
\* written is L + 16 * (L div BLOCK_SIZE + 1) bytes.
C14_BlockCalls ==
    StreamEncrypted =>
        LET L == Len(plain)
            full == L \div BLOCK_SIZE
        IN  /\ Len(CipherCalls) = full + 1
            /\ \A i \in 1..full : CipherCalls[i] = Event("encrypt_next", BLOCK_SIZE)
            /\ CipherCalls[full + 1] = Event("encrypt_last", L % BLOCK_SIZE)
            /\ enc.bench = "WriteToFilesystem" =>
                  Len(orig) - HeaderLen = L + 16 * (full + 1)

C14_Witness ==
    /\ StreamEncrypted
    /\ enc.bench = "WriteToFilesystem"
    /\ Len(plain) = BLOCK_SIZE
    /\ CipherCalls = <<Event("encrypt_next", BLOCK_SIZE), Event("encrypt_last", 0)>>
    /\ Len(orig) - HeaderLen = BLOCK_SIZE + 32

\* C15: a validly encrypted stream that lost its final block, a suffix of
\* whole blocks or the end of a block is never decrypted with Ok, whatever
\* key is given
C15_TruncatedStreamRefused ==
    (/\ cut >= 0
     /\ enc.res = "Ok"
     /\ enc.mode = "StreamMode"
     /\ dec.res # "none")
    => dec.res # "Ok"

\* a stream the decryptor accepts whole, cut at a block boundary and decrypted
\* with the key it was encrypted under: the blocks before the cut decrypt,
\* the end of the stream does not
C15_Witness ==
    /\ cut >= 0
    /\ enc.res = "Ok"
    /\ enc.mode = "StreamMode"
    /\ upd = NoUpd
    /\ dec.key = enc.key
    /\ decrypt(ctab, orig, dec.key, dec.bench).res = "Ok"
    /\ (Len(orig) - cut) % (BLOCK_SIZE + 16) = 0
    /\ dec.out # <<>>
    /\ dec.res = "DecryptError"

\* the size of the header a file starts with: 64 for V1..V3, 128 for V4
HeaderSize(f) == IF SubSeq(f, 1, 2) = <<222, 4>> THEN 128 ELSE 64

\* C16: strip on a file that starts with a valid header of size N zeroes
\* exactly bytes [0,N) and keeps the rest and the length; a file that does
\* not parse as a header is left as it was
C16_StripFrame ==
    hops.strip # "none" =>
        IF deserialize(hops.pre).ok
        THEN /\ hops.strip = "Ok"
             /\ hops.stripped =
                    WriteAt(hops.pre, 0, Zeros(HeaderSize(hops.pre)))
        ELSE /\ hops.strip # "Ok"
             /\ hops.stripped = hops.pre

\* C17: dump on a file that starts with a valid header of size N writes
\* exactly the first N bytes to the destination; when the source does not
\* parse, dump refuses and the destination is not created
C17_DumpCopiesHeader ==
    hops.dump # "none" =>
        IF deserialize(hops.src).ok
        THEN /\ hops.dump = "Ok"
             /\ hops.dest = SubSeq(hops.src, 1, HeaderSize(hops.src))
        ELSE /\ hops.dump # "Ok"
             /\ hops.dest = <<>>

\* C18: for a valid encrypted file, dump, then strip, then restore from the
\* dump leaves the file equal to the original, which decrypts as the
\* original does; between strip and restore the file's header does not
\* deserialize (MalformedHeader)
C18_DumpStripRestore ==
    /\ (/\ hops.strip = "Ok"
        /\ hops.restore = "none"
        /\ file = hops.stripped)
       => (~deserialize(file).ok /\ deserialize(file).err = "MalformedHeader")
    /\ (/\ hops.log = <<"dump", "strip", "restore">>
        /\ hops.dump = "Ok" /\ hops.strip = "Ok" /\ hops.restore = "Ok"
        /\ hops.pre = hops.src
        /\ hops.at = hops.stripped)
       => (/\ hops.restored = hops.src
           /\ \A k \in Keys : decrypt(ctab, hops.restored, k, "WriteToFilesystem")
                                = decrypt(ctab, hops.src, k, "WriteToFilesystem"))

\* C19: update_key on a file whose header version is V1, V2 or V3 returns
\* the unsupported-operation error and writes nothing to the file
C19_PreV4UpdateRefused ==
    (/\ upd.res # "none"
     /\ deserialize(upd.before).ok
     /\ deserialize(upd.before).header.header_type.version \in {"V1", "V2", "V3"})
    => (/\ upd.res = "UnsupportedOperation"
        /\ file = upd.before)

\* update_key was run with the right old key on a V3 file, and on a V1 or V2
\* file: it was refused and the file is as it was
C19_Witness ==
    /\ upd.res = "UnsupportedOperation"
    /\ upd.old = enc.key
    /\ enc.version \in {"V1", "V2", "V3"}
    /\ deserialize(upd.before).header.header_type.version = enc.version
    /\ file = upd.before
    /\ file = orig

\* C20: secure_erase is called on the source of an encryption or decryption
\* only after that operation returned Ok: in a run where the operation
\* failed the source is never erased
C20_EraseOnlyAfterSuccess ==
    /\ "plain" \in wiped => enc.res = "Ok"
    /\ "file" \in wiped => dec.res = "Ok"
    /\ enc.res \notin {"none", "Ok"} => "plain" \notin wiped
    /\ dec.res \notin {"none", "Ok"} => "file" \notin wiped

\* with --erase given, the encryption succeeded and its source was erased,
\* the decryption failed and its source was kept
C20_Witness ==
    /\ erase
    /\ enc.res = "Ok"
    /\ "plain" \in wiped
    /\ dec.res \notin {"none", "Ok"}
    /\ "file" \notin wiped

-----------------------------------------------------------------------------
(* Secrets, key sources and directory packing at work (SpecUtil) *)

SecretValues == {<<>>, <<7>>, <<0, 0>>, <<1, 2>>, <<255, 0, 9>>}

ProtectedNew ==
    /\ prot.state = "none"
    /\ \E value \in SecretValues :
          prot' = [NoProt EXCEPT !.state = "live", !.data = new(value).data,
                                 !.given = value, !.buffers = 1]
    /\ UNCHANGED <<ukey, pack>>
    /\ UNCHANGED <<hvars, pvars>>

Expose ==
    /\ prot.state = "live"
    /\ prot' = [prot EXCEPT !.seen = <<expose(prot)>>]
    /\ UNCHANGED <<ukey, pack>>
    /\ UNCHANGED <<hvars, pvars>>

DebugFmt ==
    /\ prot.state = "live"
    /\ prot' = [prot EXCEPT !.dbg = fmt(prot)]
    /\ UNCHANGED <<ukey, pack>>
    /\ UNCHANGED <<hvars, pvars>>

Drop ==
    /\ prot.state = "live"
    /\ prot' = [prot EXCEPT !.state = "dropped", !.data = drop(prot).data]
    /\ UNCHANGED <<ukey, pack>>
    /\ UNCHANGED <<hvars, pvars>>

Keyfiles == {"", "key.bin"}

GetUserKey ==
    /\ \E keyfile \in Keyfiles, validation \in BOOLEAN, dexios_key \in BOOLEAN,
          readable \in BOOLEAN, terminal \in BOOLEAN :
          LET r == get_user_key(keyfile, validation, dexios_key, readable, terminal)
          IN  ukey' = [source |-> r.source, ok |-> r.ok, keyfile |-> keyfile,
                       validation |-> validation, dexios_key |-> dexios_key,
                       terminal |-> terminal]
    /\ UNCHANGED <<prot, pack>>
    /\ UNCHANGED <<hvars, pvars>>

EncryptDirectory ==
    /\ \E fails \in Range(EncryptDirectorySteps) \cup {"none"} :
          LET r == encrypt_directory(fails)
          IN  pack' = [op |-> "encrypt_directory", res |-> r.res,
                       fails |-> fails, tmp |-> r.tmp]
    /\ UNCHANGED <<prot, ukey>>
    /\ UNCHANGED <<hvars, pvars>>

DecryptDirectory ==
    /\ \E fails \in Range(DecryptDirectorySteps) \cup {"none"},
          created \in BOOLEAN :
          LET r == decrypt_directory(fails, created)
          IN  pack' = [op |-> "decrypt_directory", res |-> r.res,
                       fails |-> fails, tmp |-> r.tmp]
    /\ UNCHANGED <<prot, ukey>>
    /\ UNCHANGED <<hvars, pvars>>

NextUtil ==
    \/ ProtectedNew \/ Expose \/ DebugFmt \/ Drop
    \/ GetUserKey
    \/ EncryptDirectory \/ DecryptDirectory

InitUtil ==
    /\ UtilIdle
    /\ HeaderIdle
    /\ PipelineIdle

SpecUtil == InitUtil /\ [][NextUtil]_vars

-----------------------------------------------------------------------------
(* Claims about secrets, key sources and directory packing (SpecUtil) *)

\* C21: after a Protected value is dropped its buffer is all zeros; while it
\* is live expose returns the stored value unchanged, the value is held in
\* one buffer only, and Debug formatting yields "[REDACTED]"
C21_ProtectedZeroized ==
    /\ prot.state = "dropped" => prot.data = Zeros(Len(prot.given))
    /\ prot.state = "live" => (prot.data = prot.given /\ prot.buffers = 1)
    /\ prot.seen # <<>> => prot.seen = <<prot.given>>
    /\ prot.dbg # "" => prot.dbg = "[REDACTED]"

\* a secret with a non-zero byte was exposed, formatted and then dropped
C21_Witness ==
    /\ prot.state = "dropped"
    /\ prot.given = <<255, 0, 9>>
    /\ prot.seen = <<prot.given>>
    /\ prot.dbg = "[REDACTED]"
    /\ prot.data = <<0, 0, 0>>

\* C22: get_user_key takes the key from the keyfile whenever one is given;
\* DEXIOS_KEY supplies the key only when no keyfile is given and no prompt
\* is possible; otherwise the password is read from the prompt
C22_KeySourcePriority ==
    ukey.source # "none" =>
        ukey.source =
            (IF ukey.keyfile # "" THEN "keyfile"
             ELSE IF ukey.dexios_key /\ ~ukey.terminal THEN "DEXIOS_KEY"
             ELSE IF ukey.validation THEN "prompt twice"
             ELSE "prompt")

\* C30: the temporary archive of encrypt_directory and decrypt_directory
\* has been erased whenever the function returns, with success or with an
\* error raised after the archive was created
C30_TemporaryArchiveErased ==
    pack.res # "none" => pack.tmp \in {"absent", "erased"}

-----------------------------------------------------------------------------
(* Further claims about the pipelines *)

IsDecryptCall(e) == e.op \in {"decrypt_next", "decrypt_last"}

\* the block encryptions of the stream whose header is hd, as the cipher
\* recorded them
BlockCalls(hd) ==
    {i \in 1..Len(ctab) :
        /\ Len(ctab[i].nonce) = Len(hd.nonce) + 2
        /\ SubSeq(ctab[i].nonce, 1, Len(hd.nonce)) = hd.nonce}

\* C23: every AEAD call of a stream of version V3 or later (encrypt_next,
\* encrypt_last, decrypt_next, decrypt_last) receives the header-derived AAD
C23_SameAadEveryBlock ==
    (/\ StreamEncrypted
     /\ enc.bench = "WriteToFilesystem"
     /\ enc.version \in {"V3", "V4"}
     /\ deserialize(file).ok)
    => LET d == deserialize(file)
       IN  /\ BlockCalls(d.header) # {}
           /\ \A i \in BlockCalls(d.header) : ctab[i].aad = d.aad
           /\ \A j \in 1..Len(dec.log) :
                  IsDecryptCall(dec.log[j]) => dec.log[j].aad = d.aad

IsOutputEvent(e) == e.op \in {"write_header", "write", "flush"}

IsFlush(e) == e.op = "flush"

IsHeaderWrite(e) == e.op = "write_header"

\* the output of a run is the header first (when there is one), and one
\* flush, after the last write
OutputInOrder(log, header_first) ==
    LET io == SelectSeq(log, IsOutputEvent)
    IN  /\ io # <<>>
        /\ header_first => io[1].op = "write_header"
        /\ Len(SelectSeq(io, IsHeaderWrite)) = (IF header_first THEN 1 ELSE 0)
        /\ Len(SelectSeq(io, IsFlush)) = 1
        /\ io[Len(io)].op = "flush"

\* C24: every pipeline run (memory or stream mode) that returns Ok with
\* output writes enabled writes the header before any ciphertext and flushes
\* the output exactly once, after the last write
C24_HeaderFirstFlushOnce ==
    /\ (enc.res = "Ok" /\ enc.bench = "WriteToFilesystem")
        => OutputInOrder(enc.log, TRUE)
    /\ (dec.res = "Ok" /\ dec.bench = "WriteToFilesystem")
        => OutputInOrder(dec.log, FALSE)

\* the ciphertext after the header of the file as it is now, and its j-th
\* block of BLOCK_SIZE + 16 bytes (the last one may be shorter)
Body == SubSeq(file, deserialize(file).size + 1, Len(file))

Block(j) ==
    SubSeq(Body, (j - 1) * (BLOCK_SIZE + 16) + 1,
           Min(j * (BLOCK_SIZE + 16), Len(Body)))

NumBlocks == (Len(Body) \div (BLOCK_SIZE + 16)) + 1

\* block j authenticates under the key the decryption was given, at counter
\* j - 1, as the last block exactly when it is the last of the file
Authentic(j) ==
    AeadDecrypt(ctab, argon2_hash(dec.key, deserialize(file).header.salt),
                StreamNonce(deserialize(file).header.nonce, j - 1,
                            IF j = NumBlocks THEN 1 ELSE 0),
                <<>>, Block(j))

RECURSIVE PlaintextOfBlocks(_)
PlaintextOfBlocks(k) ==
    IF k = 0 THEN <<>> ELSE PlaintextOfBlocks(k - 1) \o Authentic(k).msg

\* the number of leading blocks of the file that authenticate
RECURSIVE AuthenticPrefix(_)
AuthenticPrefix(j) ==
    IF j > NumBlocks \/ ~Authentic(j).ok THEN 0 ELSE 1 + AuthenticPrefix(j + 1)

IsWrite(e) == e.op = "write"

StreamFile ==
    /\ deserialize(file).ok
    /\ deserialize(file).header.header_type.mode = "StreamMode"

\* C25: stream decryption has written exactly the plaintexts of the blocks
\* that passed authentication, in order; when a block fails the function
\* returns the error with nothing written for that block or a later one and
\* the earlier bytes in place; a failed memory-mode decryption writes nothing
C25_WritesOnlyAuthenticated ==
    (dec.res # "none" /\ dec.bench = "WriteToFilesystem") =>
        IF StreamFile
        THEN LET k == AuthenticPrefix(1)
             IN  /\ dec.out = PlaintextOfBlocks(k)
                 /\ Len(SelectSeq(dec.log, IsWrite)) = k
                 /\ dec.res = (IF k = NumBlocks THEN "Ok" ELSE "DecryptError")
                 /\ Len(SelectSeq(dec.log, IsDecryptCall)) = Min(k + 1, NumBlocks)
                 /\ dec.res # "Ok" => IsDecryptCall(dec.log[Len(dec.log)])
        ELSE dec.res # "Ok" => (dec.out = <<>> /\ SelectSeq(dec.log, IsWrite) = <<>>)

\* a stream whose first block authenticates and whose last block was changed
\* on disk: the first block's plaintext is written, the error is returned
C25_Witness ==
    /\ StreamFile
    /\ tam > HeaderLen + BLOCK_SIZE + 16
    /\ dec.bench = "WriteToFilesystem"
    /\ dec.key = enc.key
    /\ dec.res = "DecryptError"
    /\ dec.out = SubSeq(plain, 1, BLOCK_SIZE)
    /\ AuthenticPrefix(1) = 1

\* the j-th block of the stream as it was encrypted
OrigBlock(j) ==
    LET body == SubSeq(orig, deserialize(orig).size + 1, Len(orig))
    IN  SubSeq(body, Min((j - 1) * (BLOCK_SIZE + 16) + 1, Len(body) + 1),
               Min(j * (BLOCK_SIZE + 16), Len(body)))

\* the first position at which the file holds another block than the one
\* encrypted there (a block past the end of the original included)
FirstDisplaced == CHOOSE j \in 1..NumBlocks :
                      /\ Block(j) # OrigBlock(j)
                      /\ \A k \in 1..(j - 1) : Block(k) = OrigBlock(k)

\* C26: a stream in which two blocks are swapped, a block is duplicated or
\* a block before the last is removed is never decrypted with Ok: the
\* decryption fails no later than at the first out-of-position block
C26_StrictBlockOrder ==
    (moved # NoMove /\ dec.res # "none")
    => (/\ dec.res = "DecryptError"
        /\ Len(SelectSeq(dec.log, IsDecryptCall)) <= FirstDisplaced
        /\ Len(SelectSeq(dec.log, IsWrite)) < FirstDisplaced)

\* the second and third blocks of a stream the decryptor accepts whole are
\* swapped: the first block is decrypted and written, the second call fails
C26_Witness ==
    /\ moved = [kind |-> "swap", i |-> 2, j |-> 3]
    /\ upd = NoUpd
    /\ decrypt(ctab, orig, dec.key, dec.bench).res = "Ok"
    /\ dec.bench = "WriteToFilesystem"
    /\ dec.res = "DecryptError"
    /\ FirstDisplaced = 2
    /\ Len(SelectSeq(dec.log, IsDecryptCall)) = 2
    /\ dec.out = SubSeq(plain, 1, BLOCK_SIZE)

\* C27: a successful update_key rewrites only bytes [0,128) of the file:
\* every byte from offset 128 on and the file length are unchanged
C27_UpdateRewritesHeaderOnly ==
    upd.res = "Ok" =>
        /\ Len(file) = Len(upd.before)
        /\ \A i \in 129..Len(file) : file[i] = upd.before[i]
        /\ deserialize(file).ok
        /\ deserialize(file).size = 128

\* the key of a V4 file with ciphertext after its header was rotated: the
\* header changed, the ciphertext did not
C27_Witness ==
    /\ upd.res = "Ok"
    /\ Len(file) > 128 + TAG_LEN
    /\ SubSeq(file, 1, 128) # SubSeq(upd.before, 1, 128)
    /\ SubSeq(file, 129, Len(file)) = SubSeq(upd.before, 129, Len(file))

\* C28: when the old key given does not unwrap the master key, update_key
\* returns an error and the file is unchanged; the header is rewritten only
\* in a run that unwrapped the master key with the old key
C28_WrongOldKeyKeepsFile ==
    /\ (/\ upd.res # "none"
        /\ upd.old # enc.key)
       => (upd.res # "Ok" /\ file = upd.before)
    /\ (upd.res # "none" /\ file # upd.before)
       => (upd.res = "Ok" /\ upd.old = enc.key)

\* update_key was run on a V4 file with an old key other than the one the
\* file was encrypted under
C28_Witness ==
    /\ enc.version = "V4"
    /\ enc.res = "Ok"
    /\ upd.old # enc.key
    /\ upd.res = "KeyDecryptError"
    /\ file = upd.before
    /\ file = orig
    /\ Len(file) > 128

-----------------------------------------------------------------------------
(* A further claim about the header codec (SpecHeader) *)

\* C29: Header::write returns Ok only if every byte of the serialized header
\* (64 for V3, 128 for V4) was written to the writer; when the writer takes
\* fewer bytes, write returns an error
C29_WriteAllOrError ==
    h_wr.res = "Ok" =>
        /\ Len(h_wr.out) = Len(h_wr.before) + get_size(h_in)
        /\ h_wr.out = h_wr.before \o serialize(h_in).val

====
